---- MODULE Spec2Model ----
(***************************************************************************)
(* Model of backend/server.js of ToDo-Master: the start-up code that reads *)
(* the configuration and builds the CORS allow-list, and the Express       *)
(* middleware stack that serves each request.                              *)
(*                                                                         *)
(* A JavaScript string is a sequence of one-character strings, so that     *)
(* split, trim and replace are computed character by character.  The file  *)
(* holds two copies of the server (lines 1-134 and 136-247) that agree on  *)
(* everything modelled here; the definitions follow the first copy.        *)
(***************************************************************************)
EXTENDS Naturals, Sequences, FiniteSets

VARIABLES
  env,                     \* process.env: NODE_ENV, PORT, ALLOWED_ORIGINS, GOOGLE_API_KEY
  pc,                      \* position of the module's top-level code
  CONFIG_NODE_ENV,
  CONFIG_PORT,
  CONFIG_ALLOWED_ORIGINS,
  allowedOrigins,
  phase,                   \* "idle", "processing" or "responded": the request in hand
  req,                     \* the request in hand
  layer,                   \* index into Stack of the layer Express runs next
  callbackArgs,            \* what the origin function last passed to callback
  err,                     \* the error handed to next(err), if any
  res,                     \* the response written
  trace,                   \* the layers that ran for the request in hand, in order
  clock                    \* seconds since the process started

vars == <<env, pc, CONFIG_NODE_ENV, CONFIG_PORT, CONFIG_ALLOWED_ORIGINS,
          allowedOrigins, phase, req, layer, callbackArgs, err, res, trace, clock>>

(***************************************************************************)
(* Bounds of the model.                                                    *)
(***************************************************************************)
MaxOrigins == 3
MaxServeOrigins == 2
MaxClock == 1

(***************************************************************************)
(* Strings.                                                                *)
(***************************************************************************)
\* JavaScript's undefined, where a string may stand: no string of characters equals it.
Undefined == <<"undefined">>

Empty == <<>>
Slash == <<"/">>
Blank == <<" ">>
HttpA == <<"h","t","t","p",":","/","/","a",".","c","o","m">>
HttpB == <<"h","t","t","p",":","/","/","b",".","c","o","m">>
HttpEvil == <<"h","t","t","p",":","/","/","e","v","i","l",".","c","o","m">>
\* 'http://localhost:5173'
DevOrigin == <<"h","t","t","p",":","/","/","l","o","c","a","l","h","o","s","t",
               ":","5","1","7","3">>
\* 'CORS blocked for origin: '
CorsBlockedPrefix == <<"C","O","R","S"," ","b","l","o","c","k","e","d"," ","f","o","r",
                       " ","o","r","i","g","i","n",":"," ">>

Range(s) == {s[i] : i \in 1..Len(s)}

\* Boolean(x) for x a string or undefined
Truthy(x) == x # Undefined /\ x # Empty

\* String.prototype.split(',')
RECURSIVE Split(_)
Split(s) ==
  LET commas == {i \in 1..Len(s) : s[i] = ","}
  IN  IF commas = {} THEN <<s>>
      ELSE LET i == CHOOSE k \in commas : \A j \in commas : k <= j
           IN  <<SubSeq(s, 1, i - 1)>> \o Split(SubSeq(s, i + 1, Len(s)))

\* String.prototype.trim()
RECURSIVE Trim(_)
Trim(s) ==
  IF s = Empty THEN s
  ELSE IF s[1] = " " THEN Trim(Tail(s))
  ELSE IF s[Len(s)] = " " THEN Trim(SubSeq(s, 1, Len(s) - 1))
  ELSE s

\* Array.prototype.filter(Boolean)
FilterBoolean(list) == SelectSeq(list, Truthy)

\* [...new Set(list)]: the first occurrence of each element, in insertion order
RECURSIVE NewSet(_)
NewSet(list) ==
  IF list = <<>> THEN <<>>
  ELSE LET init == NewSet(SubSeq(list, 1, Len(list) - 1))
           last == list[Len(list)]
       IN  IF last \in Range(init) THEN init ELSE Append(init, last)

\* o.replace(/\/$/, ''): the pattern matches one "/" at the very end
ReplaceTrailingSlash(o) ==
  IF o # Empty /\ o[Len(o)] = "/" THEN SubSeq(o, 1, Len(o) - 1) ELSE o

\* Number(s) for s a string of decimal digits
DigitValue(c) ==
  CASE c = "0" -> 0 [] c = "1" -> 1 [] c = "2" -> 2 [] c = "3" -> 3 [] c = "4" -> 4
    [] c = "5" -> 5 [] c = "6" -> 6 [] c = "7" -> 7 [] c = "8" -> 8 [] c = "9" -> 9

RECURSIVE Number(_)
Number(s) ==
  IF s = Empty THEN 0
  ELSE 10 * Number(SubSeq(s, 1, Len(s) - 1)) + DigitValue(s[Len(s)])

(***************************************************************************)
(* Start-up: the configuration and the allow-list.                         *)
(***************************************************************************)
\* process.env.ALLOWED_ORIGINS.split(',').filter(Boolean).map((s) => s.trim())
ParseAllowedOrigins(value) ==
  LET kept == FilterBoolean(Split(value))
  IN  [i \in 1..Len(kept) |-> Trim(kept[i])]

PushDefaultAnyEnv(list, nodeEnv) == Append(list, DevOrigin)

PushDefaultNever(list, nodeEnv) == list

\* if (CONFIG_NODE_ENV == 'development') CONFIG_ALLOWED_ORIGINS.push('http://localhost:5173')
PushDefault(list, nodeEnv) ==
  IF nodeEnv = "development" THEN Append(list, DevOrigin) ELSE list

\* [...new Set([...CONFIG_ALLOWED_ORIGINS])].filter(Boolean).map((o) => o.replace(/\/$/, ''))
NormalizedList(list) ==
  LET kept == FilterBoolean(NewSet(list))
  IN  [i \in 1..Len(kept) |-> ReplaceTrailingSlash(kept[i])]

NoRequest == [method |-> "", path |-> Empty, origin |-> Undefined, bodyOk |-> TRUE]
NoError == [name |-> "", message |-> Empty, status |-> 0]
NoResponse == [status |-> 0, handler |-> "", body |-> [kind |-> "none"]]
NoCallback == [err |-> NoError, allow |-> FALSE]

\* The top-level code of lines 17-24.  Reading .split of an undefined
\* ALLOWED_ORIGINS throws a TypeError, which ends the process.
LoadConfig ==
  /\ pc = "config"
  /\ IF env.ALLOWED_ORIGINS = Undefined
     THEN /\ pc' = "crashed"
          /\ UNCHANGED <<CONFIG_NODE_ENV, CONFIG_PORT, CONFIG_ALLOWED_ORIGINS>>
     ELSE /\ pc' = "build"
          /\ CONFIG_NODE_ENV' = env.NODE_ENV
          /\ CONFIG_PORT' = Number(env.PORT)
          /\ CONFIG_ALLOWED_ORIGINS' = ParseAllowedOrigins(env.ALLOWED_ORIGINS)
  /\ UNCHANGED <<env, allowedOrigins, phase, req, layer, callbackArgs, err, res,
                 trace, clock>>

\* const allowedOrigins = configureAllowedOrigins()   (line 43, lines 30-40)
configureAllowedOrigins ==
  /\ pc = "build"
  /\ CONFIG_ALLOWED_ORIGINS' = PushDefault(CONFIG_ALLOWED_ORIGINS, CONFIG_NODE_ENV)
  /\ allowedOrigins' = NormalizedList(CONFIG_ALLOWED_ORIGINS')
  /\ pc' = "listening"
  /\ UNCHANGED <<env, CONFIG_NODE_ENV, CONFIG_PORT, phase, req, layer, callbackArgs,
                 err, res, trace, clock>>

(***************************************************************************)
(* Serving: the Express stack of lines 52-123.                             *)
(***************************************************************************)
PathRoot == <<"/">>
PathHealth == <<"/","h","e","a","l","t","h">>
\* '/Health/': another spelling that Express's default matching accepts
PathHealthVariant == <<"/","H","e","a","l","t","h","/">>
PathNope == <<"/","n","o","p","e">>

StackRoutesFirst == <<"express.json", "GET /", "GET /health", "cors", "notFound">>

\* The layers in the order app.use and app.get register them (lines 52, 54, 114, 115, 119)
Stack == <<"express.json", "cors", "GET /", "GET /health", "notFound">>

\* Array.prototype.includes: strict equality with some element
IncludesIgnoringSlash(list, x) ==
  \E i \in 1..Len(list) : list[i] = ReplaceTrailingSlash(x)

Includes(list, x) == \E i \in 1..Len(list) : list[i] = x

\* The origin function given to cors (lines 57-64): the arguments it calls callback with
OriginFunction(origin, list) ==
  IF ~Truthy(origin) THEN [err |-> NoError, allow |-> TRUE]
  ELSE IF Includes(list, origin) THEN [err |-> NoError, allow |-> TRUE]
  ELSE [err |-> [name |-> "Error", message |-> CorsBlockedPrefix \o origin, status |-> 0],
        allow |-> FALSE]

LowerCaseChar(c) == IF c = "H" THEN "h" ELSE c

LowerCase(s) == [i \in 1..Len(s) |-> LowerCaseChar(s[i])]

\* Express's default path matching of a route: case-insensitive, one optional trailing slash
PathMatches(path, route) ==
  LowerCase(ReplaceTrailingSlash(path)) = LowerCase(ReplaceTrailingSlash(route))

RouteMatchesAnyMethod(method, path, route) == PathMatches(path, route)

\* app.get(route, handler): Express also gives HEAD requests to a GET route
RouteMatches(method, path, route) ==
  method \in {"GET", "HEAD"} /\ PathMatches(path, route)

\* What res.send / res.json write: a HEAD request gets the status without the body
Send(method, status, handler, body) ==
  [status |-> status, handler |-> handler,
   body |-> IF method = "HEAD" THEN [kind |-> "none"] ELSE body]

\* res.send('welcome to the default page')
RootBody == [kind |-> "text", text |-> "welcome to the default page"]

\* { error: 'Not found' }
NotFoundBody == [kind |-> "json", json |-> [error |-> "Not found"]]

\* The healthStatus object of handleHealthCheck (lines 80-101)
HealthStatus ==
  LET hasApiKey == Truthy(env.GOOGLE_API_KEY)
  IN  [status |-> "healthy",
       timestamp |-> clock,
       api |-> [running |-> TRUE, port |-> CONFIG_PORT, env |-> CONFIG_NODE_ENV,
                allowedOrigins |-> allowedOrigins],
       gemini |-> [configured |-> hasApiKey,
                   model |-> IF hasApiKey THEN "gemini-2.5-flash" ELSE "unavailable"],
       uptime |-> clock]

HealthBody == [kind |-> "json", json |-> HealthStatus]

Running(name) ==
  /\ phase = "processing"
  /\ err = NoError
  /\ layer <= Len(Stack)
  /\ Stack[layer] = name

Respond(r) ==
  /\ res' = r
  /\ phase' = "responded"

\* A request arrives at the listening server
Receive(r) ==
  /\ pc = "listening"
  /\ phase = "idle"
  /\ phase' = "processing"
  /\ req' = r
  /\ layer' = 1
  /\ UNCHANGED <<env, pc, CONFIG_NODE_ENV, CONFIG_PORT, CONFIG_ALLOWED_ORIGINS,
                 allowedOrigins, callbackArgs, err, res, trace, clock>>

\* app.use(express.json()): a malformed JSON body is passed on as a 400 error
ExpressJson ==
  /\ Running("express.json")
  /\ trace' = Append(trace, "express.json")
  /\ IF req.bodyOk
     THEN /\ layer' = layer + 1
          /\ err' = err
     ELSE /\ err' = [name |-> "SyntaxError", message |-> Empty, status |-> 400]
          /\ layer' = layer
  /\ UNCHANGED <<env, pc, CONFIG_NODE_ENV, CONFIG_PORT, CONFIG_ALLOWED_ORIGINS,
                 allowedOrigins, phase, req, callbackArgs, res, clock>>

\* app.use(cors({origin: function, credentials: true})): the middleware calls the
\* origin function; on an error it calls next(err), otherwise it answers an OPTIONS
\* request itself (204, preflightContinue being off) and passes any other on.
CorsMiddleware ==
  /\ Running("cors")
  /\ trace' = Append(trace, "cors")
  /\ LET cb == OriginFunction(req.origin, allowedOrigins)
     IN  /\ callbackArgs' = cb
         /\ IF cb.err # NoError
            THEN /\ err' = cb.err
                 /\ UNCHANGED <<layer, res, phase>>
            ELSE IF cb.allow /\ req.method = "OPTIONS"
            THEN /\ Respond([status |-> 204, handler |-> "cors", body |-> [kind |-> "none"]])
                 /\ UNCHANGED <<layer, err>>
            ELSE /\ layer' = layer + 1
                 /\ UNCHANGED <<err, res, phase>>
  /\ UNCHANGED <<env, pc, CONFIG_NODE_ENV, CONFIG_PORT, CONFIG_ALLOWED_ORIGINS,
                 allowedOrigins, req, clock>>

\* app.get('/', handleRoot)
GetRoot ==
  /\ Running("GET /")
  /\ IF RouteMatches(req.method, req.path, PathRoot)
     THEN /\ trace' = Append(trace, "handleRoot")
          /\ Respond(Send(req.method, 200, "handleRoot", RootBody))
          /\ layer' = layer
     ELSE /\ layer' = layer + 1
          /\ UNCHANGED <<trace, res, phase>>
  /\ UNCHANGED <<env, pc, CONFIG_NODE_ENV, CONFIG_PORT, CONFIG_ALLOWED_ORIGINS,
                 allowedOrigins, req, callbackArgs, err, clock>>

\* app.get('/health', handleHealthCheck)
GetHealth ==
  /\ Running("GET /health")
  /\ IF RouteMatches(req.method, req.path, PathHealth)
     THEN /\ trace' = Append(trace, "handleHealthCheck")
          /\ Respond(Send(req.method, 200, "handleHealthCheck", HealthBody))
          /\ layer' = layer
     ELSE /\ layer' = layer + 1
          /\ UNCHANGED <<trace, res, phase>>
  /\ UNCHANGED <<env, pc, CONFIG_NODE_ENV, CONFIG_PORT, CONFIG_ALLOWED_ORIGINS,
                 allowedOrigins, req, callbackArgs, err, clock>>

\* app.use((req, res) => res.status(404).json({ error: 'Not found' }))
NotFound ==
  /\ Running("notFound")
  /\ trace' = Append(trace, "notFound")
  /\ Respond(Send(req.method, 404, "notFound", NotFoundBody))
  /\ UNCHANGED <<env, pc, CONFIG_NODE_ENV, CONFIG_PORT, CONFIG_ALLOWED_ORIGINS,
                 allowedOrigins, req, layer, callbackArgs, err, clock>>

\* Express's final handler: no error-handling middleware is registered, so an error
\* passed to next skips the remaining layers and is answered with its status, or 500.
FinalHandler ==
  /\ phase = "processing"
  /\ ~(err = NoError /\ layer <= Len(Stack))
  /\ Respond([status |-> IF err = NoError THEN 404
                         ELSE IF err.status >= 400 THEN err.status ELSE 500,
              handler |-> "finalhandler",
              body |-> [kind |-> "none"]])
  /\ UNCHANGED <<env, pc, CONFIG_NODE_ENV, CONFIG_PORT, CONFIG_ALLOWED_ORIGINS,
                 allowedOrigins, req, layer, callbackArgs, err, trace, clock>>

\* The response has gone out; the server waits for the next request
Finish ==
  /\ phase = "responded"
  /\ phase' = "idle"
  /\ req' = NoRequest
  /\ layer' = 0
  /\ callbackArgs' = NoCallback
  /\ err' = NoError
  /\ res' = NoResponse
  /\ trace' = <<>>
  /\ UNCHANGED <<env, pc, CONFIG_NODE_ENV, CONFIG_PORT, CONFIG_ALLOWED_ORIGINS,
                 allowedOrigins, clock>>

\* A second passes (process.uptime() and new Date() read this clock)
Tick ==
  /\ pc = "listening"
  /\ clock < MaxClock
  /\ clock' = clock + 1
  /\ UNCHANGED <<env, pc, CONFIG_NODE_ENV, CONFIG_PORT, CONFIG_ALLOWED_ORIGINS,
                 allowedOrigins, phase, req, layer, callbackArgs, err, res, trace>>

(***************************************************************************)
(* Inputs and specifications.                                              *)
(***************************************************************************)
BoundedSeq(S, n) == UNION {[1..k -> S] : k \in 0..n}

\* The value of ALLOWED_ORIGINS in .env that lists these entries
RECURSIVE Join(_)
Join(entries) ==
  IF entries = <<>> THEN Empty
  ELSE IF Len(entries) = 1 THEN entries[1]
  ELSE entries[1] \o <<",">> \o Join(Tail(entries))

\* The value a process sees for an unset NODE_ENV
NodeEnvUnset == "undefined"

NodeEnvs == {"development", "production", "test", NodeEnvUnset}

RawEntries ==
  {Empty, Blank \o Blank, Slash, HttpA, HttpA \o Slash, HttpA \o Slash \o Slash,
   Blank \o HttpA \o Blank, HttpB, DevOrigin, DevOrigin \o Slash}

ServeEntries == {HttpA, HttpA \o Slash, Slash}

Methods == {"GET", "HEAD", "OPTIONS", "POST"}

Paths == {PathRoot, PathHealth, PathHealthVariant, PathNope}

RequestOrigins == {Undefined, Empty, HttpA, HttpA \o Slash, HttpEvil}

Requests == [method : Methods, path : Paths, origin : RequestOrigins, bodyOk : BOOLEAN]

InitProcess ==
  /\ pc = "config"
  /\ CONFIG_NODE_ENV = NodeEnvUnset
  /\ CONFIG_PORT = 0
  /\ CONFIG_ALLOWED_ORIGINS = <<>>
  /\ allowedOrigins = <<>>
  /\ phase = "idle"
  /\ req = NoRequest
  /\ layer = 0
  /\ callbackArgs = NoCallback
  /\ err = NoError
  /\ res = NoResponse
  /\ trace = <<>>
  /\ clock = 0

\* The server with a small configuration, serving requests
Init ==
  /\ env \in [NODE_ENV : {"development", "production"},
              PORT : {<<"5","0","0","0">>},
              ALLOWED_ORIGINS : {Join(es) : es \in BoundedSeq(ServeEntries, MaxServeOrigins)}
                                \cup {Undefined},
              GOOGLE_API_KEY : {Undefined, <<"k">>}]
  /\ InitProcess

Next ==
  \/ LoadConfig
  \/ configureAllowedOrigins
  \/ \E r \in Requests : Receive(r)
  \/ ExpressJson
  \/ CorsMiddleware
  \/ GetRoot
  \/ GetHealth
  \/ NotFound
  \/ FinalHandler
  \/ Finish
  \/ Tick

Spec == Init /\ [][Next]_vars

\* Start-up alone, over a wide range of configurations
InitBuild ==
  /\ env \in [NODE_ENV : NodeEnvs,
              PORT : {<<"5","0","0","0">>},
              ALLOWED_ORIGINS : {Join(es) : es \in BoundedSeq(RawEntries, MaxOrigins)}
                                \cup {Undefined},
              GOOGLE_API_KEY : {Undefined}]
  /\ InitProcess

NextBuild ==
  \/ LoadConfig
  \/ configureAllowedOrigins

SpecBuild == InitBuild /\ [][NextBuild]_vars

(***************************************************************************)
(* The claims.                                                             *)
(***************************************************************************)
Listening == pc = "listening"

RouteHandlers == {"handleRoot", "handleHealthCheck", "notFound"}

CorsRan == phase # "idle" /\ "cors" \in Range(trace)

CorsAllowed == CorsRan /\ callbackArgs.err = NoError /\ callbackArgs.allow

CorsRejected == CorsRan /\ callbackArgs.err # NoError

\* C1: the allow-list configureAllowedOrigins returns holds no origin twice; in
\* particular "http://a.com/,http://a.com" in production yields exactly <<"http://a.com">>.
C1_NoOriginTwice ==
  Listening =>
    /\ \A i, j \in 1..Len(allowedOrigins) :
         i # j => allowedOrigins[i] # allowedOrigins[j]
    /\ (/\ env.NODE_ENV = "production"
        /\ env.ALLOWED_ORIGINS = Join(<<HttpA \o Slash, HttpA>>))
       => allowedOrigins = <<HttpA>>

\* C2: no origin stored in the allow-list ends with "/", also when the configured
\* entry ends in more than one slash.
C2_NoTrailingSlash ==
  Listening =>
    \A i \in 1..Len(allowedOrigins) :
      allowedOrigins[i] = Empty \/ allowedOrigins[i][Len(allowedOrigins[i])] # "/"

\* C3: in production the elements of the allow-list are exactly the trimmed,
\* slash-normalized non-empty configured entries, and "http://localhost:5173" is
\* among them only when a configured entry normalizes to it.
C3_ProductionExact ==
  (Listening /\ env.NODE_ENV = "production") =>
    LET B == {b \in Range(Split(env.ALLOWED_ORIGINS)) : Trim(b) # Empty}
    IN  /\ Range(allowedOrigins) = {ReplaceTrailingSlash(Trim(b)) : b \in B}
        /\ DevOrigin \in Range(allowedOrigins) =>
             \E b \in B : ReplaceTrailingSlash(Trim(b)) = DevOrigin

\* C3 witness: a production configuration with a padded entry, a blank entry and the
\* development origin written with a slash has been built into the two origins.
C3_Witness ==
  /\ Listening
  /\ env.NODE_ENV = "production"
  /\ env.ALLOWED_ORIGINS = Join(<<Blank \o HttpA \o Blank, Blank \o Blank, DevOrigin \o Slash>>)
  /\ allowedOrigins = <<HttpA, DevOrigin>>

\* C4: the allow-list never holds an empty string: empty and whitespace-only entries
\* are discarded (",  ,http://b.com" in production yields exactly <<"http://b.com">>)
\* and no entry becomes empty through normalization.
C4_NoEmptyString ==
  Listening =>
    /\ Empty \notin Range(allowedOrigins)
    /\ (/\ env.NODE_ENV = "production"
        /\ env.ALLOWED_ORIGINS = Join(<<Empty, Blank \o Blank, HttpB>>))
       => allowedOrigins = <<HttpB>>

\* C5: the cross-origin check allows a request exactly when it declares no origin
\* (the header is absent or empty) or its origin is string-equal to a member of the
\* allow-list; any other request is rejected with an error naming the origin.
C5_CorsCheck ==
  CorsRan =>
    /\ CorsAllowed <=>
         (req.origin \in {Undefined, Empty} \/ req.origin \in Range(allowedOrigins))
    /\ ~CorsAllowed =>
         /\ callbackArgs.err.message = CorsBlockedPrefix \o req.origin
         /\ err = callbackArgs.err

\* C5 witness: "http://a.com/" is rejected by an allow-list that holds "http://a.com".
C5_Witness ==
  /\ CorsRejected
  /\ req.origin = HttpA \o Slash
  /\ HttpA \in Range(allowedOrigins)

\* C6: with ALLOWED_ORIGINS unset, start-up does not fail and the allow-list is empty
\* or holds only the development default.
C6_MissingOriginsNoFailure ==
  (env.ALLOWED_ORIGINS = Undefined /\ pc # "config") =>
    /\ pc # "crashed"
    /\ Listening => allowedOrigins \in {<<>>, <<DevOrigin>>}

\* C7: a call of configureAllowedOrigins changes no state outside the list it
\* returns: CONFIG_ALLOWED_ORIGINS is left as it was.
C7_LeavesConfigUnchanged ==
  [][pc = "build" => CONFIG_ALLOWED_ORIGINS' = CONFIG_ALLOWED_ORIGINS]_vars

\* C8: in development the allow-list contains "http://localhost:5173", whatever the
\* configured entries are.
C8_DevelopmentHasDefault ==
  (Listening /\ env.NODE_ENV = "development") => DevOrigin \in Range(allowedOrigins)

\* C8 witness: development with an empty ALLOWED_ORIGINS has built <<DevOrigin>>.
C8_Witness ==
  /\ Listening
  /\ env.NODE_ENV = "development"
  /\ env.ALLOWED_ORIGINS = Empty
  /\ allowedOrigins = <<DevOrigin>>

\* C9: the cross-origin check runs before any route handler, a request whose origin
\* is rejected reaches none of handleRoot, handleHealthCheck and the 404 handler, and
\* it is answered by the error path only.
C9_CorsBeforeRoutes ==
  /\ \A i \in 1..Len(trace) :
       trace[i] \in RouteHandlers => \E j \in 1..(i - 1) : trace[j] = "cors"
  /\ CorsRejected =>
       /\ \A i \in 1..Len(trace) : trace[i] \notin RouteHandlers
       /\ phase = "responded" => (res.handler = "finalhandler" /\ res.status = 500)

\* C9 witness: a GET / from an origin outside the allow-list has been answered.
C9_Witness ==
  /\ CorsRejected
  /\ phase = "responded"
  /\ req.method = "GET"
  /\ req.path = PathRoot
  /\ req.origin = HttpEvil

\* The health snapshot of a response, but for the two readings of the clock
SnapshotMatches(json) ==
  /\ json.timestamp <= clock
  /\ json.uptime = json.timestamp
  /\ [json EXCEPT !.timestamp = clock, !.uptime = clock] = HealthStatus

\* C10 as stated: a request that passes the cross-origin check gets 200 and the
\* greeting for GET "/", 200 and the health snapshot for GET "/health", and 404 with
\* {error: "Not found"} for every other method and path.
C10_RoutingAsStated ==
  (phase = "responded" /\ CorsAllowed) =>
    IF req.method = "GET" /\ req.path = PathRoot
    THEN res.status = 200 /\ res.handler = "handleRoot" /\ res.body = RootBody
    ELSE IF req.method = "GET" /\ req.path = PathHealth
    THEN /\ res.status = 200
         /\ res.handler = "handleHealthCheck"
         /\ res.body.kind = "json"
         /\ SnapshotMatches(res.body.json)
    ELSE res.status = 404 /\ res.handler = "notFound" /\ res.body = NotFoundBody

\* C10 amended: OPTIONS is answered 204 by the CORS middleware; GET and HEAD on "/"
\* and on "/health" (in any spelling Express matches) get 200 from the route's
\* handler; everything else gets 404 from the catch-all; HEAD responses have no body.
C10_Routing ==
  (phase = "responded" /\ CorsAllowed) =>
    LET viaGet == req.method \in {"GET", "HEAD"}
        Body(b) == IF req.method = "HEAD" THEN [kind |-> "none"] ELSE b
    IN  IF req.method = "OPTIONS"
        THEN res = [status |-> 204, handler |-> "cors", body |-> [kind |-> "none"]]
        ELSE IF viaGet /\ req.path = PathRoot
        THEN res = [status |-> 200, handler |-> "handleRoot", body |-> Body(RootBody)]
        ELSE IF viaGet /\ req.path \in {PathHealth, PathHealthVariant}
        THEN /\ res.status = 200
             /\ res.handler = "handleHealthCheck"
             /\ IF req.method = "HEAD" THEN res.body = [kind |-> "none"]
                ELSE res.body.kind = "json" /\ SnapshotMatches(res.body.json)
        ELSE res = [status |-> 404, handler |-> "notFound", body |-> Body(NotFoundBody)]

\* C10 witness: a HEAD /Health/ that passed the check has been answered by
\* handleHealthCheck.
C10_Witness ==
  /\ phase = "responded"
  /\ CorsAllowed
  /\ req.method = "HEAD"
  /\ req.path = PathHealthVariant
  /\ res.handler = "handleHealthCheck"

====
